---- MODULE Spec2Model ----
(***************************************************************************)
(* Model of the appointment layout engine of react-appointment-scheduler   *)
(* (src/src/utils/layoutUtils.ts and the geometry helpers of timeUtils).    *)
(*                                                                         *)
(* Time.  A Date is modelled as a whole number of minutes of local         *)
(* wall-clock time counted from midnight of day 0 (no DST change inside    *)
(* the modelled range).  Date.getTime() is 60000 times that number, so     *)
(* every comparison and difference of getTime() values in the source is    *)
(* the same comparison or difference (up to the factor) of these numbers.  *)
(* Day 0 is 1 January 1970, so the calendar fields of a Date follow from    *)
(* the day number by the Gregorian calendar.                               *)
(* An appointment is a record [id, startTime, duration] (duration in       *)
(* minutes); the other fields of Appointment are payload the engine never  *)
(* reads.                                                                  *)
(***************************************************************************)
EXTENDS Integers, Sequences, FiniteSets, TLC

VARIABLES
    appointments,   \* the array passed to the engine by the caller
    gridStartHour,  \* calculateAppointmentLayouts: gridStartHour argument
    startHour,      \* filterByWorkingHours: startHour argument
    endHour,        \* filterByWorkingHours: endHour argument
    filtered,       \* array returned by filterByWorkingHours
    groups,         \* calculateAppointmentLayouts: local `groups`
    layouts,        \* array returned by calculateAppointmentLayouts
    phase,          \* which call has been made so far
    date,           \* filterAppointmentsByDay: date argument
    dayAppointments,\* array returned by filterAppointmentsByDay
    isBrowser,      \* themeUtils: the module constant isBrowser
    storedTheme,    \* localStorage item 'scheduler-theme' ("none" = null)
    matchMedia,     \* window.matchMedia: "absent", or the scheme the query
                    \* (prefers-color-scheme: dark) reports ("dark" = matches)
    dataTheme,      \* data-theme attribute of the document element
    themeCall,      \* the themeUtils function called last
    themeResult,    \* what that call returned ("none" = void)
    toggleCurrent,  \* toggleTheme: local `current` of the last call
    view,           \* useScheduler: state `view`
    selectedDate,   \* useScheduler: state `selectedDate`
    selectedAppointment, \* useScheduler: state `selectedAppointment`,
                    \* by its id (0 = null)
    isDetailOpen,   \* useScheduler: the memoised value isDetailOpen
    hookCall,       \* the useScheduler function called last
    navCurrent,     \* goToPrevious / goToNext: argument `current` of the
                    \* last state updater
    onRescheduleSet,\* useDragDrop: whether the option onReschedule is given
    businessHours,  \* Scheduler: scheduleByDay, the set of its entries
                    \* [day, hours] (day 0 = Sunday); empty = null
    draggingId,     \* useDragDrop: state `draggingId` (0 = null)
    dragAppointment,\* the appointment carried by the draggable
    dragEvent,      \* the DragEndEvent handled last: delta.y and over date
    rescheduled,    \* the onReschedule call of the last handleDragEnd
    columns,        \* WeekView: the layouts of the seven DayColumns
    gridHours       \* Scheduler: weekViewHours, <<startHour, endHour>>

\* the variables of the theme utilities
themeVars == <<isBrowser, storedTheme, matchMedia, dataTheme, themeCall, themeResult,
               toggleCurrent>>

\* the variables of the hooks and of the week view
hookVars == <<view, selectedDate, selectedAppointment, isDetailOpen, hookCall,
              navCurrent>>
dragVars == <<onRescheduleSet, businessHours, draggingId, dragAppointment, dragEvent,
              rescheduled>>
weekVars == <<columns, gridHours>>
uiVars == <<hookVars, dragVars, weekVars>>

vars == <<appointments, gridStartHour, startHour, endHour, filtered, groups,
          layouts, phase, date, dayAppointments, themeVars, uiVars>>

(***************************************************************************)
(* Bounds and input domains.                                               *)
(***************************************************************************)
\* longest appointment array given to calculateAppointmentLayouts
MaxEvents == 3
\* longest appointment array given to filterByWorkingHours
MaxFilterEvents == 2

\* start instants used for layout inputs: 9:00, 9:15, 9:30 of day 0
LayoutStarts == {540, 555, 570}
\* durations (minutes) used for layout inputs
LayoutDurations == {15, 30, 45}
GridStartHours == {8}

\* longest appointment array of the lane specification: four events are the
\* fewest that leave two lanes of one group free at once
MaxLaneEvents == 4
\* start instants 9:00, 9:15 of day 0 and durations used for it
LaneStarts == {540, 555}
LaneDurations == {15, 30, 45}

\* the dragged appointment: it starts on Monday 5 January 1970 at 9:00,
\* 9:10, 20:30 or 23:30 (plus some seconds) and lasts 30, 45 or 90 minutes
DragStarts == {6300, 6310, 6990, 7170}
DragSeconds == {0, 20}
DragDurations == {30, 45, 90}
\* delta.y of the drop in pixels, and the date of the day column dropped on
\* (the appointment's own day, the next day, or -1 for no column)
DragDeltas == {-60, -20, 0, 30, 60}
DragTargets == {-1, 5760, 7200}
\* the working hours given to the Scheduler, and the per-day schedules:
\* none, or one that opens Tuesday 10-18 and leaves the other days unset
DragHours == {<<8, 21>>}
DragSchedules == {{}, {[day |-> 2, hours |-> <<10, 18>>]}}

\* the dates given to useScheduler and to setSelectedDate: 31 January 1970
\* at 10:30, 31 December 1970 at 0:00 and 29 February 1972 at 23:59
HookDates == {43830, 524160, 1137599}
\* the instants at which goToToday is called: 1 March 1970 at 15:45
HookNows == {85905}
\* the ids of the appointments that can be selected (0 = null)
HookSelections == {0, 1, 2}
\* navigation stays within this many days of one of the dates above
MaxNavDays == 8

\* longest appointment array of the block specification
MaxBlockEvents == 2
\* start instants 9:00, 9:10, 9:15, 9:30 of day 0 and durations, among them
\* one below a quarter of an hour, used for the rendered blocks
BlockStarts == {540, 550, 555, 570}
BlockDurations == {10, 15, 30, 45}

\* longest appointment array of the week specification
MaxWeekEvents == 2
\* the week of Sunday 29 March to Saturday 4 April 1970: the selected date
\* (Tuesday 31 March or Wednesday 1 April at 12:00) and the start instants
\* Monday 7:00, Tuesday 9:00, 10:00, 17:30 and 18:00, Thursday 20:30
WeekSelectedDates == {128880, 130320}
WeekStarts == {127140, 128700, 128760, 129210, 129240, 132270}
WeekDurations == {30}
\* the default hours of the Scheduler and the per-day schedules: none,
\* Tuesday 10-18, or Monday 7-12 and Tuesday 10-18
WeekHours == {<<8, 21>>}
WeekSchedules ==
    {{}, {[day |-> 2, hours |-> <<10, 18>>]},
     {[day |-> 1, hours |-> <<7, 12>>], [day |-> 2, hours |-> <<10, 18>>]}}

\* longest appointment array of the geometry specification
MaxGeometryEvents == 2
\* start instants 7:30, 9:00, 9:40 of day 0 and durations, among them the
\* invalid ones (zero, negative), used for the geometry specification
GeometryStarts == {450, 540, 580}
GeometryDurations == {-30, 0, 45, 90}
GeometryGridHours == {8, 10}

\* longest appointment array of the view specification
MaxViewEvents == 2
\* start instants used for the view: 31 January 1970 at 9:00, 9:15 and
\* 23:59, 1 February 1970 at 0:00, 31 March 1970 at 9:00 and 31 January 1971
\* at 9:00
ViewStarts == {43740, 43755, 44639, 44640, 128700, 569340}
ViewDurations == {30, 45}
\* dates shown: 31 January 1970 at 0:00 and at 14:37, 31 March 1970 at 10:00
ViewDates == {43200, 44077, 128760}
ViewHours == {<<8, 21>>}

\* working-hours windows <<startHour, endHour>> (hours 0-23): the default
\* 8-21, the widest 0-23, and an inverted one
WorkingHours == {<<8, 21>>, <<0, 23>>, <<21, 8>>}
\* start instants used for filter inputs: 7:59, 8:00, 19:10, 20:00, 20:59,
\* 21:00, 22:59, 23:00 of day 0
FilterStarts == {479, 480, 1150, 1200, 1259, 1260, 1379, 1380}
\* durations (minutes) used for filter inputs
FilterDurations == {1, 60, 300}

(***************************************************************************)
(* timeUtils                                                               *)
(***************************************************************************)
SLOT_HEIGHT == 60
SLOT_DURATION == 30

\* Date.prototype.getHours / getMinutes on the minute count
getHours(t) == (t \div 60) % 24
getMinutes(t) == t % 60

\* variant: the minutes of the start are left out
calculateTopPositionHourOnly(startTime, gridStart) ==
    LET appointmentHour == getHours(startTime)
        minutesFromStart == (appointmentHour - gridStart) * 60
    IN  (minutesFromStart * SLOT_HEIGHT) \div SLOT_DURATION

\* variant: a start before the grid start is clamped to the top of the grid
calculateTopPositionClamped(startTime, gridStart) ==
    LET appointmentHour == getHours(startTime)
        appointmentMinute == getMinutes(startTime)
        minutesFromStart == (appointmentHour - gridStart) * 60 + appointmentMinute
    IN  IF minutesFromStart < 0 THEN 0
        ELSE (minutesFromStart * SLOT_HEIGHT) \div SLOT_DURATION

\* (minutesFromStart / SLOT_DURATION) * SLOT_HEIGHT is a real-number
\* computation in the source; SLOT_DURATION divides SLOT_HEIGHT, so the
\* value is the integer below for every whole minute count.
calculateTopPosition(startTime, gridStart) ==
    LET appointmentHour == getHours(startTime)
        appointmentMinute == getMinutes(startTime)
        minutesFromStart == (appointmentHour - gridStart) * 60 + appointmentMinute
    IN  (minutesFromStart * SLOT_HEIGHT) \div SLOT_DURATION

calculateHeight(durationMinutes) ==
    (durationMinutes * SLOT_HEIGHT) \div SLOT_DURATION

\* Date.prototype.getFullYear / getMonth / getDate: the civil date of the
\* day number t \div 1440 (days since 1 January 1970), Gregorian calendar
CivilDate(t) ==
    LET z == (t \div 1440) + 719468
        era == z \div 146097
        doe == z - era * 146097
        yoe == (doe - doe \div 1460 + doe \div 36524 - doe \div 146096) \div 365
        doy == doe - (365 * yoe + yoe \div 4 - yoe \div 100)
        mp == (5 * doy + 2) \div 153
        month == IF mp < 10 THEN mp + 3 ELSE mp - 9
    IN  [year  |-> yoe + era * 400 + (IF month <= 2 THEN 1 ELSE 0),
         month |-> month,
         day   |-> doy - (153 * mp + 2) \div 5 + 1]

getFullYear(t) == CivilDate(t).year
\* months are numbered from 0
getMonth(t) == CivilDate(t).month - 1
getDate(t) == CivilDate(t).day

\* variant: the months are not compared
isSameDayNoMonth(date1, date2) ==
    /\ getFullYear(date1) = getFullYear(date2)
    /\ getDate(date1) = getDate(date2)

isSameDay(date1, date2) ==
    /\ getFullYear(date1) = getFullYear(date2)
    /\ getMonth(date1) = getMonth(date2)
    /\ getDate(date1) = getDate(date2)

(***************************************************************************)
(* layoutUtils                                                             *)
(***************************************************************************)
getEndTime(appointment) == appointment.startTime + appointment.duration

\* [...array].sort(cmp) makes a copy and sorts it stably (ECMAScript 2019):
\* element i of s lands after every element that compares lower and after
\* every equal element that precedes it in s.  StableRank is that position,
\* given the comparator's results as a function c[j][i] = cmp(s[j], s[i]).
StableRank(c, i) ==
    Cardinality({j \in DOMAIN c : c[j][i] < 0 \/ (c[j][i] = 0 /\ j < i)}) + 1

\* variant: the comparator with its operands swapped
compareByStartDescending(a, b) == b.startTime - a.startTime

\* comparator of groupOverlappingAppointments
compareByStart(a, b) == a.startTime - b.startTime

\* variant: an appointment starting exactly at the group end joins the group
StartsBeforeGroupEndInclusive(appointmentStart, currentGroupEnd) ==
    appointmentStart <= currentGroupEnd

\* the test `appointmentStart < currentGroupEnd`
StartsBeforeGroupEnd(appointmentStart, currentGroupEnd) ==
    appointmentStart < currentGroupEnd

Max(a, b) == IF a >= b THEN a ELSE b

\* variant: the group still open when the loop ends is not pushed
RECURSIVE GroupLoopDropsLast(_, _, _, _, _)
GroupLoopDropsLast(sorted, i, grps, currentGroup, currentGroupEnd) ==
    IF i > Len(sorted)
    THEN grps
    ELSE LET appointment == sorted[i]
             appointmentStart == appointment.startTime
         IN  IF StartsBeforeGroupEnd(appointmentStart, currentGroupEnd)
             THEN GroupLoopDropsLast(sorted, i + 1, grps,
                            Append(currentGroup, appointment),
                            Max(currentGroupEnd, getEndTime(appointment)))
             ELSE GroupLoopDropsLast(sorted, i + 1, Append(grps, currentGroup),
                            <<appointment>>, getEndTime(appointment))

\* the for loop of groupOverlappingAppointments from index i (1-based here)
RECURSIVE GroupLoop(_, _, _, _, _)
GroupLoop(sorted, i, grps, currentGroup, currentGroupEnd) ==
    IF i > Len(sorted)
    THEN Append(grps, currentGroup)
    ELSE LET appointment == sorted[i]
             appointmentStart == appointment.startTime
         IN  IF StartsBeforeGroupEnd(appointmentStart, currentGroupEnd)
             THEN GroupLoop(sorted, i + 1, grps,
                            Append(currentGroup, appointment),
                            Max(currentGroupEnd, getEndTime(appointment)))
             ELSE GroupLoop(sorted, i + 1, Append(grps, currentGroup),
                            <<appointment>>, getEndTime(appointment))

\* [...appointments].sort((a, b) => a.startTime.getTime() - b.startTime.getTime())
SortByStart(s) ==
    LET c == [j \in 1..Len(s) |-> [i \in 1..Len(s) |-> compareByStart(s[j], s[i])]]
    IN  [k \in 1..Len(s) |-> s[CHOOSE i \in 1..Len(s) : StableRank(c, i) = k]]

groupOverlappingAppointments(appts) ==
    IF Len(appts) = 0
    THEN <<>>
    ELSE LET sorted == SortByStart(appts)
         IN  GroupLoop(sorted, 2, <<>>, <<sorted[1]>>, getEndTime(sorted[1]))

\* variant: ties on the start are broken by shorter duration first
compareByStartThenShorter(a, b) ==
    LET startDiff == a.startTime - b.startTime
    IN  IF startDiff # 0 THEN startDiff ELSE a.duration - b.duration

\* variant: ties on the start are not broken at all
compareByStartOnly(a, b) == a.startTime - b.startTime

\* comparator of assignLanes: start ascending, then longer duration first
compareByStartThenDuration(a, b) ==
    LET startDiff == a.startTime - b.startTime
    IN  IF startDiff # 0 THEN startDiff ELSE b.duration - a.duration

\* variant: a lane whose last event ends exactly at the start is not free
LaneIsFreeStrict(laneEnd, appointmentStart) == laneEnd < appointmentStart

\* the test `laneEndTimes[i] <= appointmentStart`
LaneIsFree(laneEnd, appointmentStart) == laneEnd <= appointmentStart

\* variant: the free lane with the highest index is taken
LastFreeLane(laneEndTimes, appointmentStart) ==
    LET free == {i \in 0..(Len(laneEndTimes) - 1) :
                    LaneIsFree(laneEndTimes[i + 1], appointmentStart)}
    IN  IF free = {} THEN -1
        ELSE CHOOSE i \in free : \A j \in free : i >= j

\* the inner for loop of assignLanes: index (0-based) of the first free lane,
\* or -1 when every lane is still occupied
FirstFreeLane(laneEndTimes, appointmentStart) ==
    LET free == {i \in 0..(Len(laneEndTimes) - 1) :
                    LaneIsFree(laneEndTimes[i + 1], appointmentStart)}
    IN  IF free = {} THEN -1
        ELSE CHOOSE i \in free : \A j \in free : i <= j

\* Map.prototype.set on a map held as a function from keys to values
MapSet(map, key, value) ==
    [k \in DOMAIN map \cup {key} |-> IF k = key THEN value ELSE map[k]]

\* variant: the end time of the assigned lane is never recorded
RECURSIVE AssignLoopNoEndTime(_, _, _, _)
AssignLoopNoEndTime(sorted, i, lanes, laneEndTimes) ==
    IF i > Len(sorted)
    THEN lanes
    ELSE LET appointment == sorted[i]
             appointmentStart == appointment.startTime
             found == FirstFreeLane(laneEndTimes, appointmentStart)
             assignedLane == IF found = -1 THEN Len(laneEndTimes) ELSE found
             pushed == IF found = -1 THEN Append(laneEndTimes, 0)
                       ELSE laneEndTimes
         IN  AssignLoopNoEndTime(sorted, i + 1,
                        MapSet(lanes, appointment.id, assignedLane), pushed)

\* the outer for loop of assignLanes from index i (1-based here);
\* lanes are numbered from 0 as in the source
RECURSIVE AssignLoop(_, _, _, _)
AssignLoop(sorted, i, lanes, laneEndTimes) ==
    IF i > Len(sorted)
    THEN lanes
    ELSE LET appointment == sorted[i]
             appointmentStart == appointment.startTime
             found == FirstFreeLane(laneEndTimes, appointmentStart)
             assignedLane == IF found = -1 THEN Len(laneEndTimes) ELSE found
             pushed == IF found = -1 THEN Append(laneEndTimes, 0)
                       ELSE laneEndTimes
         IN  AssignLoop(sorted, i + 1,
                        MapSet(lanes, appointment.id, assignedLane),
                        [pushed EXCEPT ![assignedLane + 1] = getEndTime(appointment)])

EmptyMap == [k \in {} |-> 0]

\* [...group].sort(...) of assignLanes
SortByStartThenDuration(s) ==
    LET c == [j \in 1..Len(s) |->
                [i \in 1..Len(s) |-> compareByStartThenDuration(s[j], s[i])]]
    IN  [k \in 1..Len(s) |-> s[CHOOSE i \in 1..Len(s) : StableRank(c, i) = k]]

assignLanes(group) ==
    AssignLoop(SortByStartThenDuration(group), 1, EmptyMap, <<>>)

\* variant: lanes.size, the number of entries of the map
EntryCount(map) == Cardinality(DOMAIN map)

\* new Set(lanes.values()).size
DistinctValues(map) == Cardinality({map[k] : k \in DOMAIN map})

\* the layout records of one group, in group order
GroupLayouts(group, gridStart) ==
    LET lanes == assignLanes(group)
        totalLanes == DistinctValues(lanes)
    IN  [k \in 1..Len(group) |->
            [appointment |-> group[k],
             lane        |-> IF group[k].id \in DOMAIN lanes
                             THEN lanes[group[k].id] ELSE 0,
             totalLanes  |-> totalLanes,
             top         |-> calculateTopPosition(group[k].startTime, gridStart),
             height      |-> calculateHeight(group[k].duration)]]

\* the `for (const group of groups)` loop of calculateAppointmentLayouts
RECURSIVE LayoutLoop(_, _, _, _)
LayoutLoop(grps, g, gridStart, acc) ==
    IF g > Len(grps)
    THEN acc
    ELSE LayoutLoop(grps, g + 1, gridStart, acc \o GroupLayouts(grps[g], gridStart))

calculateAppointmentLayouts(appts, gridStart) ==
    IF Len(appts) = 0
    THEN <<>>
    ELSE LayoutLoop(groupOverlappingAppointments(appts), 1, gridStart, <<>>)

\* variant: an appointment starting in the hour of endHour is kept
WithinWorkingHoursInclusiveEnd(apt, sHour, eHour) ==
    LET hour == getHours(apt.startTime)
        endTime == getEndTime(apt)
        endTimeHour == getHours(endTime)
        endTimeMinute == getMinutes(endTime)
        startsBeforeEnd == hour <= eHour
        endsAfterStart ==
            \/ endTimeHour > sHour
            \/ endTimeHour = sHour /\ endTimeMinute > 0
    IN  startsBeforeEnd /\ endsAfterStart /\ hour >= sHour

\* variant: the test `hour >= startHour` is left out
WithinWorkingHoursNoStartTest(apt, sHour, eHour) ==
    LET hour == getHours(apt.startTime)
        endTime == getEndTime(apt)
        endTimeHour == getHours(endTime)
        endTimeMinute == getMinutes(endTime)
        startsBeforeEnd == hour < eHour
        endsAfterStart ==
            \/ endTimeHour > sHour
            \/ endTimeHour = sHour /\ endTimeMinute > 0
    IN  startsBeforeEnd /\ endsAfterStart

\* the predicate of the filter callback of filterByWorkingHours
WithinWorkingHours(apt, sHour, eHour) ==
    LET hour == getHours(apt.startTime)
        endTime == getEndTime(apt)
        endTimeHour == getHours(endTime)
        endTimeMinute == getMinutes(endTime)
        startsBeforeEnd == hour < eHour
        endsAfterStart ==
            \/ endTimeHour > sHour
            \/ endTimeHour = sHour /\ endTimeMinute > 0
    IN  startsBeforeEnd /\ endsAfterStart /\ hour >= sHour

\* Array.prototype.filter keeps the selected elements in array order
filterByWorkingHours(appts, sHour, eHour) ==
    LET keep(apt) == WithinWorkingHours(apt, sHour, eHour)
    IN  SelectSeq(appts, keep)

\* Array.prototype.filter keeps the selected elements in array order
filterAppointmentsByDay(appts, d) ==
    LET keep(apt) == isSameDay(apt.startTime, d)
    IN  SelectSeq(appts, keep)

\* variant: the argument array itself is sorted (appointments.sort(...))
ArgumentSortedInPlace(appts) == SortByStart(appts)

\* The argument array of calculateAppointmentLayouts after the call.  Both
\* sorts work on spread copies ([...appointments], [...group]) and the
\* records are only read, so the array holds what it held.
ArgumentAfterLayout(appts) == appts

(***************************************************************************)
(* themeUtils                                                              *)
(***************************************************************************)
\* values localStorage may hold under 'scheduler-theme' when the page loads:
\* nothing, a theme, or something that is no theme
StoredValues == {"none", "light", "dark", "auto"}
Themes == {"light", "dark"}

\* variant: the system preference is looked at before the stored value
getCurrentThemeSystemFirst(browser, savedTheme, media) ==
    IF ~browser THEN "light"
    ELSE IF media = "dark" THEN "dark"
    ELSE IF savedTheme = "dark" \/ savedTheme = "light" THEN savedTheme
    ELSE "light"

\* getCurrentTheme(), reading isBrowser, localStorage and window.matchMedia
getCurrentTheme(browser, savedTheme, media) ==
    IF ~browser THEN "light"
    ELSE IF savedTheme = "dark" \/ savedTheme = "light" THEN savedTheme
    ELSE IF media # "absent" /\ media = "dark" THEN "dark"
    ELSE "light"

\* variant: the attribute is set, the theme is not stored
setThemeNotStored(theme) ==
    IF ~isBrowser
    THEN UNCHANGED <<dataTheme, storedTheme>>
    ELSE /\ dataTheme' = theme
         /\ UNCHANGED storedTheme

\* variant: no test of isBrowser
setThemeUnguarded(theme) ==
    /\ dataTheme' = theme
    /\ storedTheme' = theme

\* setTheme(theme): what it does to the document and to localStorage
setTheme(theme) ==
    IF ~isBrowser
    THEN UNCHANGED <<dataTheme, storedTheme>>
    ELSE /\ dataTheme' = theme
         /\ storedTheme' = theme

(***************************************************************************)
(* AppointmentBlock                                                        *)
(***************************************************************************)
\* pixels between lanes
gapSize == 2
\* the least height of a block in pixels
MinBlockHeight == 30

\* the height of the style of a block: Math.max(height - gapSize, 30)
RenderedHeight(height) == Max(height - gapSize, MinBlockHeight)

(***************************************************************************)
(* useScheduler                                                            *)
(***************************************************************************)
\* number of the day (day 0 = 1 January 1970) of a year, a month numbered
\* from 1 and a day of the month that may lie outside the month
DaysFromCivil(year, month, day) ==
    LET y == IF month <= 2 THEN year - 1 ELSE year
        era == y \div 400
        yoe == y - era * 400
        mp == IF month > 2 THEN month - 3 ELSE month + 9
        doy == (153 * mp + 2) \div 5 + day - 1
        doe == yoe * 365 + yoe \div 4 - yoe \div 100 + doy
    IN  era * 146097 + doe - 719468

\* variant: a day outside 1..28 is not carried into the neighbouring month
setDateNoCarry(t, dayValue) ==
    LET day == IF dayValue < 1 THEN 1 ELSE IF dayValue > 28 THEN 28 ELSE dayValue
    IN  DaysFromCivil(getFullYear(t), getMonth(t) + 1, day) * 1440 + (t % 1440)

\* Date.prototype.setDate(dayValue): the day of the month is replaced, days
\* outside the month carry into the neighbouring months, the time stays
setDate(t, dayValue) ==
    DaysFromCivil(getFullYear(t), getMonth(t) + 1, dayValue) * 1440 + (t % 1440)

\* startOfDay(date)
startOfDay(t) == t - (t % 1440)

\* the state updater of goToPrevious
PreviousDate(current, currentView) ==
    IF currentView = "day"
    THEN setDate(current, getDate(current) - 1)
    ELSE setDate(current, getDate(current) - 7)

\* the state updater of goToNext
NextDate(current, currentView) ==
    IF currentView = "day"
    THEN setDate(current, getDate(current) + 1)
    ELSE setDate(current, getDate(current) + 7)

\* variant: the detail view counts as open whatever is selected
DetailOpenAlways(selected) == TRUE

\* the memoised isDetailOpen
DetailOpen(selected) == selected # 0

(***************************************************************************)
(* useDragDrop.  An instant with seconds is a record [at, seconds]: `at`   *)
(* is the whole minute, `seconds` the seconds and milliseconds within it.  *)
(***************************************************************************)
\* Math.round(n / d) for d > 0: halves are rounded up
RoundHalfUp(n, d) == (2 * n + d) \div (2 * d)

\* Date.prototype.getDay: 0 = Sunday; day 0 is a Thursday
getDay(t) == ((t \div 1440) + 4) % 7

\* variant: the new start is passed on as it is
roundToSlotNone(d) == d

\* roundToSlot(date): setMinutes(roundedMinutes, 0, 0) carries 60 minutes
\* into the next hour
roundToSlot(d) ==
    LET minutes == getMinutes(d.at)
        roundedMinutes == RoundHalfUp(minutes, SLOT_DURATION) * SLOT_DURATION
    IN  [at |-> (d.at - minutes) + roundedMinutes, seconds |-> 0]

\* Scheduler.getHoursForDate(date), with the default hours of the props
getHoursForDate(schedule, defaultHours, d) ==
    IF \E row \in schedule : row.day = getDay(d)
    THEN (CHOOSE row \in schedule : row.day = getDay(d)).hours
    ELSE defaultHours

\* handleDragEnd: slotsMovedY * SLOT_DURATION
MinutesChange(deltaY) == RoundHalfUp(deltaY, SLOT_HEIGHT) * SLOT_DURATION

\* no day column under the drop, no appointment, no call of onReschedule
NoTarget == -1
NoId == 0
NoCall == [called |-> FALSE, id |-> NoId, newStartTime |-> [at |-> 0, seconds |-> 0]]
NoEvent == [deltaY |-> 0, over |-> NoTarget, hasData |-> FALSE]
NoAppointment == [id |-> NoId, startTime |-> 0, startSeconds |-> 0, duration |-> 0]

\* handleDragEnd: newStartTime before rounding
NewStartTime(appointment, deltaY, targetDate) ==
    IF targetDate # NoTarget
    THEN [at |-> (targetDate \div 1440) * 1440
                    + getHours(appointment.startTime) * 60
                    + getMinutes(appointment.startTime)
                    + MinutesChange(deltaY),
          seconds |-> 0]
    ELSE [at |-> appointment.startTime + MinutesChange(deltaY),
          seconds |-> appointment.startSeconds]

\* handleDragEnd: the bounds <<boundsStart, boundsEnd>> of the drop
DragBounds(appointment, targetDate, schedule, defaultHours) ==
    getHoursForDate(schedule, defaultHours,
                    IF targetDate # NoTarget THEN targetDate ELSE appointment.startTime)

\* handleDragEnd: newHour < boundsStart || appointmentEndHour > boundsEnd
OutsideBounds(newStart, duration, bounds) ==
    LET newHour == getHours(newStart)
        newMinute == getMinutes(newStart)
        appointmentEndHour == newHour + ((newMinute + duration) \div 60)
    IN  newHour < bounds[1] \/ appointmentEndHour > bounds[2]

\* handleDragEnd(event): the call of onReschedule it makes, or NoCall
DragEndCall(hasCallback, event, appointment, schedule, defaultHours) ==
    IF ~hasCallback THEN NoCall
    ELSE IF ~event.hasData THEN NoCall
    ELSE IF MinutesChange(event.deltaY) = 0 /\ event.over = NoTarget THEN NoCall
    ELSE LET roundedStartTime ==
                 roundToSlot(NewStartTime(appointment, event.deltaY, event.over))
             bounds == DragBounds(appointment, event.over, schedule, defaultHours)
         IN  IF OutsideBounds(roundedStartTime.at, appointment.duration, bounds)
             THEN NoCall
             ELSE IF roundedStartTime = [at |-> appointment.startTime,
                                         seconds |-> appointment.startSeconds]
             THEN NoCall
             ELSE [called |-> TRUE, id |-> appointment.id,
                   newStartTime |-> roundedStartTime]

(***************************************************************************)
(* Scheduler, WeekView and DayColumn                                       *)
(***************************************************************************)
\* getWeekDates(date): the seven days, Sunday first, of the week of date
getWeekDates(d) ==
    LET startOfWeek == startOfDay(setDate(d, getDate(d) - getDay(d)))
    IN  [i \in 1..7 |-> setDate(startOfWeek, getDate(startOfWeek) + (i - 1))]

\* the least of a non-empty set of numbers, for Math.min
Least(set) == CHOOSE x \in set : \A y \in set : x <= y
\* the largest of a non-empty set of numbers, for Math.max
Largest(set) == CHOOSE x \in set : \A y \in set : y <= x

\* variant: the grid spans the hours of the selected day only
weekViewHoursOfSelectedDay(schedule, defaultHours, selected) ==
    getHoursForDate(schedule, defaultHours, selected)

\* Scheduler.weekViewHours: the union of the hours of the days of the week
weekViewHours(schedule, defaultHours, selected) ==
    IF schedule = {} THEN defaultHours
    ELSE LET days == getWeekDates(selected)
             hours == {getHoursForDate(schedule, defaultHours, days[i]) : i \in 1..7}
         IN  <<Least({24} \cup {h[1] : h \in hours}),
               Largest({0} \cup {h[2] : h \in hours})>>

\* DayColumn.layouts (and TimeGrid.appointmentLayouts): the layouts of one day
\* filtered by the hours dayHours and placed on a grid starting at gridStart
ColumnLayouts(appts, day, dayHours, gridStart) ==
    calculateAppointmentLayouts(
        filterByWorkingHours(filterAppointmentsByDay(appts, day),
                             dayHours[1], dayHours[2]),
        gridStart)

(***************************************************************************)
(* The parts of the state a specification does not use.                    *)
(***************************************************************************)
\* no theme function is called: a browser with nothing stored
ThemeAtRest ==
    /\ isBrowser = TRUE
    /\ storedTheme = "none"
    /\ matchMedia = "light"
    /\ dataTheme = "none"
    /\ themeCall = "none"
    /\ themeResult = "none"
    /\ toggleCurrent = "none"

\* no hook is mounted and no view is rendered
HookAtRest ==
    /\ view = "week"
    /\ selectedDate = 0
    /\ selectedAppointment = NoId
    /\ isDetailOpen = FALSE
    /\ hookCall = "none"
    /\ navCurrent = 0

DragAtRest ==
    /\ onRescheduleSet = FALSE
    /\ businessHours = {}
    /\ draggingId = NoId
    /\ dragAppointment = NoAppointment
    /\ dragEvent = NoEvent
    /\ rescheduled = NoCall

WeekAtRest ==
    /\ columns = <<>>
    /\ gridHours = <<0, 0>>

UiAtRest == HookAtRest /\ DragAtRest /\ WeekAtRest

\* no appointment is filtered or laid out
LayoutAtRest ==
    /\ appointments = <<>>
    /\ gridStartHour = 0
    /\ startHour = 0
    /\ endHour = 0
    /\ filtered = <<>>
    /\ groups = <<>>
    /\ layouts = <<>>
    /\ phase = "idle"

\* no day filter is applied
DayFilterAtRest ==
    /\ date = 0
    /\ dayAppointments = <<>>

(***************************************************************************)
(* Inputs: arrays of appointments with unique ids.                         *)
(***************************************************************************)
\* arrays of at most n appointments; the k-th one has id k
AppointmentArrays(n, starts, durations) ==
    UNION {{[k \in 1..len |-> [id |-> k, startTime |-> f[k][1], duration |-> f[k][2]]] :
                f \in [1..len -> starts \X durations]} : len \in 0..n}

\* the arrays holding the same appointments as s in another order
Reorderings(s) ==
    {[k \in 1..Len(s) |-> s[p[k]]] :
        p \in {q \in [1..Len(s) -> 1..Len(s)] :
                  \A i, j \in 1..Len(s) : i # j => q[i] # q[j]}}

(***************************************************************************)
(* Specification of the layout call.  The caller lays an array out and     *)
(* then lays the same appointments out again in another array order.  Ids  *)
(* are interchangeable names, so the first array lists the appointments    *)
(* chronologically (by start, then by duration); the second call takes     *)
(* every other order of it.                                                *)
(***************************************************************************)
Chronological(s) ==
    \A k \in 1..(Len(s) - 1) :
        \/ s[k].startTime < s[k + 1].startTime
        \/ s[k].startTime = s[k + 1].startTime /\ s[k].duration <= s[k + 1].duration

InitLayout ==
    /\ appointments \in {s \in AppointmentArrays(MaxEvents, LayoutStarts, LayoutDurations) :
                            Chronological(s)}
    /\ gridStartHour \in GridStartHours
    /\ startHour = 0
    /\ endHour = 0
    /\ filtered = <<>>
    /\ groups = <<>>
    /\ layouts = <<>>
    /\ phase = "idle"
    /\ DayFilterAtRest
    /\ ThemeAtRest
    /\ UiAtRest

\* calculateAppointmentLayouts(appointments, gridStartHour)
Layout ==
    /\ phase = "idle"
    /\ groups' = groupOverlappingAppointments(appointments)
    /\ layouts' = calculateAppointmentLayouts(appointments, gridStartHour)
    /\ phase' = "laidOut"
    /\ UNCHANGED <<appointments, gridStartHour, startHour, endHour, filtered>>
    /\ UNCHANGED <<date, dayAppointments, themeVars, uiVars>>

\* calculateAppointmentLayouts on the same appointments in another order
LayoutReordered ==
    /\ phase = "laidOut"
    /\ \E r \in Reorderings(appointments) :
        /\ r # appointments
        /\ appointments' = r
        /\ groups' = groupOverlappingAppointments(r)
        /\ layouts' = calculateAppointmentLayouts(r, gridStartHour)
    /\ phase' = "laidOutAgain"
    /\ UNCHANGED <<gridStartHour, startHour, endHour, filtered>>
    /\ UNCHANGED <<date, dayAppointments, themeVars, uiVars>>

NextLayout == Layout \/ LayoutReordered

SpecLayout == InitLayout /\ [][NextLayout]_vars

(***************************************************************************)
(* Specification of the layout call on whatever the caller passes: the     *)
(* engine does not look at the durations, so the arrays include events     *)
(* with a zero or negative duration; the grid may start after an event.    *)
(***************************************************************************)
InitGeometry ==
    /\ appointments \in AppointmentArrays(MaxGeometryEvents, GeometryStarts, GeometryDurations)
    /\ gridStartHour \in GeometryGridHours
    /\ startHour = 0
    /\ endHour = 0
    /\ filtered = <<>>
    /\ groups = <<>>
    /\ layouts = <<>>
    /\ phase = "idle"
    /\ DayFilterAtRest
    /\ ThemeAtRest
    /\ UiAtRest

NextGeometry == Layout

SpecGeometry == InitGeometry /\ [][NextGeometry]_vars

(***************************************************************************)
(* Specification of the view pipeline of TimeGrid: the appointments of the *)
(* shown day, of those the ones within working hours, and their layout     *)
(* with the grid starting at startHour.                                    *)
(***************************************************************************)
InitView ==
    /\ appointments \in AppointmentArrays(MaxViewEvents, ViewStarts, ViewDurations)
    /\ date \in ViewDates
    /\ \E w \in ViewHours : startHour = w[1] /\ endHour = w[2]
    /\ gridStartHour = startHour
    /\ dayAppointments = <<>>
    /\ filtered = <<>>
    /\ groups = <<>>
    /\ layouts = <<>>
    /\ phase = "idle"
    /\ ThemeAtRest
    /\ UiAtRest

\* dayAppointments = filterAppointmentsByDay(appointments, date)
ViewFilterDay ==
    /\ phase = "idle"
    /\ dayAppointments' = filterAppointmentsByDay(appointments, date)
    /\ phase' = "dayFiltered"
    /\ UNCHANGED <<appointments, date, gridStartHour, startHour, endHour,
                   filtered, groups, layouts, themeVars, uiVars>>

\* validAppointments = filterByWorkingHours(dayAppointments, startHour, endHour)
ViewFilterHours ==
    /\ phase = "dayFiltered"
    /\ filtered' = filterByWorkingHours(dayAppointments, startHour, endHour)
    /\ phase' = "hoursFiltered"
    /\ UNCHANGED <<appointments, date, gridStartHour, startHour, endHour,
                   dayAppointments, groups, layouts, themeVars, uiVars>>

\* calculateAppointmentLayouts(validAppointments, startHour)
ViewLayout ==
    /\ phase = "hoursFiltered"
    /\ groups' = groupOverlappingAppointments(filtered)
    /\ layouts' = calculateAppointmentLayouts(filtered, gridStartHour)
    /\ filtered' = ArgumentAfterLayout(filtered)
    /\ phase' = "rendered"
    /\ UNCHANGED <<appointments, date, gridStartHour, startHour, endHour,
                   dayAppointments, themeVars, uiVars>>

NextView == ViewFilterDay \/ ViewFilterHours \/ ViewLayout

SpecView == InitView /\ [][NextView]_vars

(***************************************************************************)
(* Specification of the lane assignment: calculateAppointmentLayouts is     *)
(* called once on an array, in any order, of up to MaxLaneEvents events.   *)
(***************************************************************************)
InitLanes ==
    /\ appointments \in AppointmentArrays(MaxLaneEvents, LaneStarts, LaneDurations)
    /\ gridStartHour \in GridStartHours
    /\ startHour = 0
    /\ endHour = 0
    /\ filtered = <<>>
    /\ groups = <<>>
    /\ layouts = <<>>
    /\ phase = "idle"
    /\ DayFilterAtRest
    /\ ThemeAtRest
    /\ UiAtRest

NextLanes == Layout

SpecLanes == InitLanes /\ [][NextLanes]_vars

(***************************************************************************)
(* Specification of drag and drop: an appointment of the grid is dragged   *)
(* and dropped, any number of times; the parent keeps the appointment as   *)
(* it is.                                                                  *)
(***************************************************************************)
InitDrag ==
    /\ onRescheduleSet \in BOOLEAN
    /\ businessHours \in DragSchedules
    /\ \E h \in DragHours : startHour = h[1] /\ endHour = h[2]
    /\ dragAppointment \in [id : {1}, startTime : DragStarts,
                             startSeconds : DragSeconds, duration : DragDurations]
    /\ draggingId = NoId
    /\ dragEvent = NoEvent
    /\ rescheduled = NoCall
    /\ appointments = <<>>
    /\ gridStartHour = 0
    /\ filtered = <<>>
    /\ groups = <<>>
    /\ layouts = <<>>
    /\ phase = "idle"
    /\ DayFilterAtRest
    /\ ThemeAtRest
    /\ HookAtRest
    /\ WeekAtRest

DragFrame ==
    UNCHANGED <<appointments, gridStartHour, startHour, endHour, filtered, groups,
                layouts, date, dayAppointments, themeVars, hookVars, weekVars,
                onRescheduleSet, businessHours, dragAppointment>>

\* handleDragStart(event)
HandleDragStart ==
    /\ draggingId = NoId
    /\ draggingId' = dragAppointment.id
    /\ phase' = "dragging"
    /\ UNCHANGED <<dragEvent, rescheduled>>
    /\ DragFrame

\* handleDragEnd(event)
HandleDragEnd ==
    /\ draggingId # NoId
    /\ \E deltaY \in DragDeltas, over \in DragTargets, hasData \in BOOLEAN :
        LET event == [deltaY |-> deltaY, over |-> over, hasData |-> hasData]
        IN  /\ dragEvent' = event
            /\ rescheduled' = DragEndCall(onRescheduleSet, event, dragAppointment,
                                          businessHours, <<startHour, endHour>>)
    /\ draggingId' = NoId
    /\ phase' = "dropped"
    /\ DragFrame

NextDrag ==
    \/ HandleDragStart
    \/ HandleDragEnd

SpecDrag == InitDrag /\ [][NextDrag]_vars

(***************************************************************************)
(* Specification of useScheduler: the hook is mounted with an initial view *)
(* and date, and its functions are called in any order.                    *)
(***************************************************************************)
InitHook ==
    /\ view \in {"day", "week"}
    /\ selectedDate \in HookDates \cup {startOfDay(now) : now \in HookNows}
    /\ selectedAppointment = 0
    /\ isDetailOpen = DetailOpen(0)
    /\ hookCall = "none"
    /\ navCurrent = 0
    /\ LayoutAtRest
    /\ DayFilterAtRest
    /\ ThemeAtRest
    /\ DragAtRest
    /\ WeekAtRest

HookFrame ==
    UNCHANGED <<appointments, gridStartHour, startHour, endHour, filtered, groups,
                layouts, phase, date, dayAppointments, themeVars, dragVars, weekVars>>

\* navigation is followed only near the dates of HookDates
NearHookDates(t) ==
    \E d \in HookDates \cup {startOfDay(now) : now \in HookNows} :
        /\ t - d <= MaxNavDays * 1440
        /\ d - t <= MaxNavDays * 1440

\* selectAppointment(appointment)
SelectAppointment ==
    /\ \E id \in HookSelections : selectedAppointment' = id
    /\ isDetailOpen' = DetailOpen(selectedAppointment')
    /\ hookCall' = "selectAppointment"
    /\ UNCHANGED <<view, selectedDate, navCurrent>>
    /\ HookFrame

\* closeDetail()
CloseDetail ==
    /\ selectedAppointment' = 0
    /\ isDetailOpen' = DetailOpen(selectedAppointment')
    /\ hookCall' = "closeDetail"
    /\ UNCHANGED <<view, selectedDate, navCurrent>>
    /\ HookFrame

\* setView(view)
SetView ==
    /\ \E v \in {"day", "week"} : view' = v
    /\ hookCall' = "setView"
    /\ UNCHANGED <<selectedDate, selectedAppointment, isDetailOpen, navCurrent>>
    /\ HookFrame

\* setSelectedDate(date)
SetSelectedDate ==
    /\ \E d \in HookDates : selectedDate' = d
    /\ hookCall' = "setSelectedDate"
    /\ UNCHANGED <<view, selectedAppointment, isDetailOpen, navCurrent>>
    /\ HookFrame

\* goToPrevious()
GoToPrevious ==
    /\ NearHookDates(PreviousDate(selectedDate, view))
    /\ navCurrent' = selectedDate
    /\ selectedDate' = PreviousDate(selectedDate, view)
    /\ hookCall' = "goToPrevious"
    /\ UNCHANGED <<view, selectedAppointment, isDetailOpen>>
    /\ HookFrame

\* goToNext()
GoToNext ==
    /\ NearHookDates(NextDate(selectedDate, view))
    /\ navCurrent' = selectedDate
    /\ selectedDate' = NextDate(selectedDate, view)
    /\ hookCall' = "goToNext"
    /\ UNCHANGED <<view, selectedAppointment, isDetailOpen>>
    /\ HookFrame

\* goToToday()
GoToToday ==
    /\ \E now \in HookNows : selectedDate' = startOfDay(now)
    /\ hookCall' = "goToToday"
    /\ UNCHANGED <<view, selectedAppointment, isDetailOpen, navCurrent>>
    /\ HookFrame

NextHook ==
    \/ SelectAppointment
    \/ CloseDetail
    \/ SetView
    \/ SetSelectedDate
    \/ GoToPrevious
    \/ GoToNext
    \/ GoToToday

SpecHook == InitHook /\ [][NextHook]_vars

(***************************************************************************)
(* Specification of the rendered blocks: calculateAppointmentLayouts is    *)
(* called once and an AppointmentBlock is rendered for every record.       *)
(***************************************************************************)
InitBlocks ==
    /\ appointments \in AppointmentArrays(MaxBlockEvents, BlockStarts, BlockDurations)
    /\ gridStartHour \in GridStartHours
    /\ startHour = 0
    /\ endHour = 0
    /\ filtered = <<>>
    /\ groups = <<>>
    /\ layouts = <<>>
    /\ phase = "idle"
    /\ DayFilterAtRest
    /\ ThemeAtRest
    /\ UiAtRest

NextBlocks == Layout

SpecBlocks == InitBlocks /\ [][NextBlocks]_vars

(***************************************************************************)
(* Specification of the views: the Scheduler renders the week view or the  *)
(* day view of the selected date.                                          *)
(***************************************************************************)
InitWeek ==
    /\ appointments \in AppointmentArrays(MaxWeekEvents, WeekStarts, WeekDurations)
    /\ view \in {"day", "week"}
    /\ selectedDate \in WeekSelectedDates
    /\ businessHours \in WeekSchedules
    /\ \E h \in WeekHours : startHour = h[1] /\ endHour = h[2]
    /\ columns = <<>>
    /\ gridHours = <<0, 0>>
    /\ phase = "idle"
    /\ gridStartHour = 0
    /\ filtered = <<>>
    /\ groups = <<>>
    /\ layouts = <<>>
    /\ selectedAppointment = NoId
    /\ isDetailOpen = FALSE
    /\ hookCall = "none"
    /\ navCurrent = 0
    /\ onRescheduleSet = FALSE
    /\ draggingId = NoId
    /\ dragAppointment = NoAppointment
    /\ dragEvent = NoEvent
    /\ rescheduled = NoCall
    /\ DayFilterAtRest
    /\ ThemeAtRest

WeekFrame ==
    UNCHANGED <<appointments, gridStartHour, startHour, endHour, filtered, groups,
                layouts, date, dayAppointments, themeVars, hookVars, dragVars>>

\* the Scheduler renders the WeekView: one DayColumn for each day of the week
RenderWeek ==
    /\ phase = "idle"
    /\ view = "week"
    /\ LET hours == weekViewHours(businessHours, <<startHour, endHour>>, selectedDate)
           days == getWeekDates(selectedDate)
       IN  /\ gridHours' = hours
           /\ columns' = [i \in 1..7 |->
                 ColumnLayouts(appointments, days[i],
                     IF businessHours = {} THEN hours
                     ELSE getHoursForDate(businessHours, <<startHour, endHour>>, days[i]),
                     hours[1])]
    /\ phase' = "rendered"
    /\ WeekFrame

\* the Scheduler renders the day view of the selected date
RenderDay ==
    /\ phase = "idle"
    /\ view = "day"
    /\ LET hours == getHoursForDate(businessHours, <<startHour, endHour>>, selectedDate)
       IN  /\ gridHours' = hours
           /\ columns' = <<ColumnLayouts(appointments, selectedDate, hours, hours[1])>>
    /\ phase' = "rendered"
    /\ WeekFrame

NextWeek ==
    \/ RenderWeek
    \/ RenderDay

SpecWeek == InitWeek /\ [][NextWeek]_vars

(***************************************************************************)
(* Specification of the theme utilities: the module is loaded in a browser *)
(* (with whatever localStorage holds and whatever the system prefers) or   *)
(* on a server, and its functions are called in any order; in a browser    *)
(* the user may change the system colour scheme between calls.             *)
(***************************************************************************)
InitTheme ==
    /\ isBrowser \in BOOLEAN
    /\ storedTheme \in (IF isBrowser THEN StoredValues ELSE {"none"})
    /\ matchMedia \in (IF isBrowser THEN {"absent", "light", "dark"} ELSE {"absent"})
    /\ dataTheme = "none"
    /\ themeCall = "none"
    /\ themeResult = "none"
    /\ toggleCurrent = "none"
    /\ LayoutAtRest
    /\ DayFilterAtRest
    /\ UiAtRest

ThemeFrame ==
    UNCHANGED <<appointments, gridStartHour, startHour, endHour, filtered, groups,
                layouts, phase, date, dayAppointments, isBrowser, matchMedia,
                uiVars>>

\* a call of getCurrentTheme()
GetCurrentTheme ==
    /\ themeCall' = "getCurrentTheme"
    /\ themeResult' = getCurrentTheme(isBrowser, storedTheme, matchMedia)
    /\ UNCHANGED <<storedTheme, dataTheme, toggleCurrent>>
    /\ ThemeFrame

\* a call of setTheme(theme)
SetTheme ==
    /\ \E theme \in Themes : setTheme(theme)
    /\ themeCall' = "setTheme"
    /\ themeResult' = "none"
    /\ UNCHANGED toggleCurrent
    /\ ThemeFrame

\* a call of toggleTheme()
ToggleTheme ==
    LET current == getCurrentTheme(isBrowser, storedTheme, matchMedia)
        newTheme == IF current = "light" THEN "dark" ELSE "light"
    IN  /\ setTheme(newTheme)
        /\ toggleCurrent' = current
        /\ themeCall' = "toggleTheme"
        /\ themeResult' = newTheme
        /\ ThemeFrame

\* a call of initializeTheme()
InitializeTheme ==
    LET theme == getCurrentTheme(isBrowser, storedTheme, matchMedia)
    IN  /\ setTheme(theme)
        /\ themeCall' = "initializeTheme"
        /\ themeResult' = "none"
        /\ UNCHANGED toggleCurrent
        /\ ThemeFrame

\* the user switches the colour scheme of the system; no call result is
\* current any more
SystemPreferenceChanges ==
    /\ isBrowser
    /\ matchMedia \in Themes
    /\ matchMedia' = (IF matchMedia = "light" THEN "dark" ELSE "light")
    /\ themeCall' = "none"
    /\ themeResult' = "none"
    /\ UNCHANGED <<appointments, gridStartHour, startHour, endHour, filtered, groups,
                   layouts, phase, date, dayAppointments, isBrowser, storedTheme,
                   dataTheme, toggleCurrent, uiVars>>

NextTheme ==
    \/ GetCurrentTheme
    \/ SetTheme
    \/ ToggleTheme
    \/ InitializeTheme
    \/ SystemPreferenceChanges

SpecTheme == InitTheme /\ [][NextTheme]_vars

(***************************************************************************)
(* Specification of the working-hours filter.                              *)
(***************************************************************************)
InitFilter ==
    /\ appointments \in AppointmentArrays(MaxFilterEvents, FilterStarts, FilterDurations)
    /\ \E w \in WorkingHours : startHour = w[1] /\ endHour = w[2]
    /\ gridStartHour = startHour
    /\ filtered = <<>>
    /\ groups = <<>>
    /\ layouts = <<>>
    /\ phase = "idle"
    /\ DayFilterAtRest
    /\ ThemeAtRest
    /\ UiAtRest

\* filterByWorkingHours(appointments, startHour, endHour)
FilterWorkingHours ==
    /\ phase = "idle"
    /\ filtered' = filterByWorkingHours(appointments, startHour, endHour)
    /\ phase' = "filtered"
    /\ UNCHANGED <<appointments, gridStartHour, startHour, endHour, groups, layouts>>
    /\ UNCHANGED <<date, dayAppointments, themeVars, uiVars>>

NextFilter == FilterWorkingHours

SpecFilter == InitFilter /\ [][NextFilter]_vars

(***************************************************************************)
(* Vocabulary of the properties.                                           *)
(***************************************************************************)
Indices(s) == 1..Len(s)
Elements(s) == {s[k] : k \in Indices(s)}

\* half-open time range [start, start + duration)
EndOf(e) == e.startTime + e.duration
Overlap(a, b) == a.startTime < EndOf(b) /\ b.startTime < EndOf(a)
Disjoint(a, b) == EndOf(a) <= b.startTime \/ EndOf(b) <= a.startTime

\* the layout record of the appointment with the given id, in a layout list
RecordOf(ls, id) == ls[CHOOSE k \in Indices(ls) : ls[k].appointment.id = id]
HasRecord(ls, id) == \E k \in Indices(ls) : ls[k].appointment.id = id

\* the index of the group holding the appointment with the given id
GroupIndexOf(id) ==
    CHOOSE g \in Indices(groups) : \E e \in Elements(groups[g]) : e.id = id
SameGroup(a, b) == GroupIndexOf(a.id) = GroupIndexOf(b.id)

\* events of a set that are active at instant t
ActiveAt(events, t) == {e \in events : e.startTime <= t /\ t < EndOf(e)}
\* whole minutes from the earliest start to the latest end of a set of events
InstantsOf(events) ==
    LET lo == CHOOSE t \in {e.startTime : e \in events} :
                  \A e \in events : t <= e.startTime
        hi == CHOOSE t \in {EndOf(e) : e \in events} :
                  \A e \in events : EndOf(e) <= t
    IN  lo..hi
\* the largest number of events of the (non-empty) set active at one instant
MaxSimultaneous(events) ==
    LET counts == {Cardinality(ActiveAt(events, t)) : t \in InstantsOf(events)}
    IN  CHOOSE n \in counts : \A m \in counts : m <= n

LaidOut == phase \in {"laidOut", "laidOutAgain"}

\* C1 - lane-count optimality: the totalLanes of every event of a group is
\* the largest number of events of the group active at a single instant.
LaneCountOptimal ==
    LaidOut =>
        \A g \in Indices(groups) : \A e \in Elements(groups[g]) :
            /\ HasRecord(layouts, e.id)
            /\ RecordOf(layouts, e.id).totalLanes = MaxSimultaneous(Elements(groups[g]))

\* a group of three events of which at most two are ever active together
LaneCountOptimalWitness ==
    /\ LaidOut
    /\ \E g \in Indices(groups) :
        /\ Len(groups[g]) = 3
        /\ MaxSimultaneous(Elements(groups[g])) = 2
        /\ \A e \in Elements(groups[g]) : RecordOf(layouts, e.id).totalLanes = 2

\* C2 - no collision: two distinct events of one group with the same lane
\* index have disjoint time ranges.
NoLaneCollision ==
    LaidOut =>
        \A i, j \in Indices(layouts) :
            ( /\ i # j
              /\ SameGroup(layouts[i].appointment, layouts[j].appointment)
              /\ layouts[i].lane = layouts[j].lane )
            => Disjoint(layouts[i].appointment, layouts[j].appointment)

\* two events of one group share a lane
NoLaneCollisionWitness ==
    /\ LaidOut
    /\ \E i, j \in Indices(layouts) :
        /\ i # j
        /\ SameGroup(layouts[i].appointment, layouts[j].appointment)
        /\ layouts[i].lane = layouts[j].lane

\* the events linked to an event of `set` by a chain of overlapping events
RECURSIVE LinkedTo(_, _)
LinkedTo(set, events) ==
    LET next == set \cup {e \in events : \E x \in set : Overlap(x, e)}
    IN  IF next = set THEN set ELSE LinkedTo(next, events)

\* C3 - the groups are the connected components of the overlap relation:
\* two events share a group exactly when a chain of pairwise overlapping
\* events links them (touching events do not overlap).
GroupsAreOverlapComponents ==
    LaidOut =>
        /\ \A e \in Elements(appointments) :
              Cardinality({g \in Indices(groups) : e \in Elements(groups[g])}) = 1
        /\ \A a, b \in Elements(appointments) :
              SameGroup(a, b) <=> b \in LinkedTo({a}, Elements(appointments))
        /\ \A a, b \in Elements(appointments) :
              SameGroup(a, b) =>
                  RecordOf(layouts, a.id).totalLanes = RecordOf(layouts, b.id).totalLanes

\* a chain A-B-C in one group whose ends A and C merely touch
GroupsAreOverlapComponentsWitness ==
    /\ LaidOut
    /\ \E a, b, c \in Elements(appointments) :
        /\ Overlap(a, b) /\ Overlap(b, c)
        /\ EndOf(a) = c.startTime
        /\ SameGroup(a, c)

\* C4 - one layout record per input event: same cardinality, every input
\* event appears exactly once with lane, totalLanes, top and height defined;
\* an empty input gives an empty list.
OneLayoutPerEvent ==
    LaidOut =>
        /\ Len(layouts) = Len(appointments)
        /\ \A k \in Indices(appointments) :
              Cardinality({i \in Indices(layouts) :
                              layouts[i].appointment = appointments[k]}) = 1
        /\ \A i \in Indices(layouts) :
              /\ layouts[i].lane \in Nat
              /\ layouts[i].totalLanes \in Nat \ {0}
              /\ layouts[i].top \in Int
              /\ layouts[i].height \in Int
        /\ (appointments = <<>> => layouts = <<>>)

\* a full-length input that falls into several groups has been laid out
OneLayoutPerEventWitness ==
    /\ LaidOut
    /\ Len(appointments) = MaxEvents
    /\ Len(groups) >= 2
    /\ Len(layouts) = MaxEvents

\* C8 - tie-break: of two events of one group starting at the same instant
\* with different durations, the longer has the strictly lower lane index.
LongerFirstOnTie ==
    LaidOut =>
        \A a, b \in Elements(appointments) :
            ( /\ SameGroup(a, b)
              /\ a.startTime = b.startTime
              /\ a.duration > b.duration )
            => RecordOf(layouts, a.id).lane < RecordOf(layouts, b.id).lane

\* the longer of two events with the same start comes later in the array
\* and is given the lower lane
LongerFirstOnTieWitness ==
    /\ LaidOut
    /\ \E i, j \in Indices(appointments) :
        /\ i < j
        /\ appointments[i].startTime = appointments[j].startTime
        /\ appointments[i].duration < appointments[j].duration
        /\ RecordOf(layouts, appointments[j].id).lane = 0
        /\ RecordOf(layouts, appointments[i].id).lane = 1
        /\ RecordOf(layouts, appointments[i].id).totalLanes = 2

\* C10 - an event that overlaps no other event of the input forms a group
\* of its own and is laid out with lane 0 and totalLanes 1.
IsolatedEventFullWidth ==
    LaidOut =>
        \A e \in Elements(appointments) :
            (\A o \in Elements(appointments) : o # e => ~Overlap(e, o))
            => /\ groups[GroupIndexOf(e.id)] = <<e>>
               /\ RecordOf(layouts, e.id).lane = 0
               /\ RecordOf(layouts, e.id).totalLanes = 1

\* two disjoint events, the later one first in the array, in two groups
IsolatedEventFullWidthWitness ==
    /\ LaidOut
    /\ Len(appointments) = 2
    /\ EndOf(appointments[2]) <= appointments[1].startTime
    /\ Len(groups) = 2
    /\ \A i \in Indices(layouts) : layouts[i].lane = 0 /\ layouts[i].totalLanes = 1

\* the event shares both its start and its duration with another event
HasTwin(e, events) ==
    \E o \in events :
        o.id # e.id /\ o.startTime = e.startTime /\ o.duration = e.duration

\* C9 as stated - order independence: laying the same events out in another
\* array order gives every event the same lane and the same totalLanes.
OrderIndependent ==
    [][(LaidOut /\ LaidOut') =>
        \A e \in Elements(appointments) :
            /\ RecordOf(layouts', e.id).lane = RecordOf(layouts, e.id).lane
            /\ RecordOf(layouts', e.id).totalLanes = RecordOf(layouts, e.id).totalLanes]_vars

\* C9 as amended - laying the same events out in another array order gives
\* every event the same totalLanes, and the same lane to every event that
\* does not share both its start and its duration with another event.
OrderIndependentUpToTwins ==
    [][(LaidOut /\ LaidOut') =>
        \A e \in Elements(appointments) :
            /\ RecordOf(layouts', e.id).totalLanes = RecordOf(layouts, e.id).totalLanes
            /\ ~HasTwin(e, Elements(appointments)) =>
                  RecordOf(layouts', e.id).lane = RecordOf(layouts, e.id).lane]_vars

\* a reordered array (the first element is not the one it began with) of
\* pairwise different events that share one group and use several lanes
OrderIndependentWitness ==
    /\ LaidOut
    /\ Len(appointments) = 3
    /\ appointments[1].id # 1
    /\ Len(groups) = 1
    /\ \A e \in Elements(appointments) : ~HasTwin(e, Elements(appointments))
    /\ \E i \in Indices(layouts) : layouts[i].lane > 0

Filtered == phase = "filtered"

\* hour and minute of the day of an instant
HourOf(t) == (t \div 60) % 24
MinuteOf(t) == t % 60

\* the three conditions under which an event is kept
KeptByRule(e) ==
    /\ HourOf(e.startTime) < endHour
    /\ HourOf(e.startTime) >= startHour
    /\ \/ HourOf(EndOf(e)) > startHour
       \/ HourOf(EndOf(e)) = startHour /\ MinuteOf(EndOf(e)) > 0

\* the subsequence of s of the elements satisfying Keep, in the order of s
RECURSIVE KeptInOrder(_)
KeptInOrder(s) ==
    IF s = <<>> THEN <<>>
    ELSE IF KeptByRule(Head(s)) THEN <<Head(s)>> \o KeptInOrder(Tail(s))
         ELSE KeptInOrder(Tail(s))

StartsWithinHoursKept ==
    Filtered =>
        \A e \in Elements(appointments) :
            ( /\ e.duration > 0
              /\ startHour <= HourOf(e.startTime)
              /\ HourOf(e.startTime) < endHour )
            => e \in Elements(filtered)

MinuteOfDay(e) == HourOf(e.startTime) * 60 + MinuteOf(e.startTime)

\* C11 - geometry: top = ((startHour*60 + startMinute) - gridStartHour*60)
\* / 30 * 60 and height = duration / 30 * 60 for every record, whatever its
\* lane and the other events; a 9:00 start with grid start 8 gives top 120,
\* 90 minutes give height 180, a start before the grid start a negative top.
GeometryByFormula ==
    LaidOut =>
        \A i \in Indices(layouts) :
            LET e == layouts[i].appointment
            IN  /\ layouts[i].top * 30 = (MinuteOfDay(e) - gridStartHour * 60) * 60
                /\ layouts[i].height * 30 = e.duration * 60
                /\ (e.startTime = 540 /\ gridStartHour = 8) => layouts[i].top = 120
                /\ e.duration = 90 => layouts[i].height = 180
                /\ MinuteOfDay(e) < gridStartHour * 60 => layouts[i].top < 0

\* a 7:30 event above the grid start 8 and a 9:00 event of 90 minutes
GeometryByFormulaWitness ==
    /\ LaidOut
    /\ gridStartHour = 8
    /\ \E i, j \in Indices(layouts) :
        /\ layouts[i].appointment.startTime = 450
        /\ layouts[i].top = -60
        /\ layouts[j].appointment.startTime = 540
        /\ layouts[j].appointment.duration = 90
        /\ layouts[j].top = 120
        /\ layouts[j].height = 180

\* C15 - invalid events are rejected: a layout call whose input holds an
\* event with duration <= 0 does not return, so no record has height <= 0.
InvalidEventsRejected ==
    LaidOut =>
        /\ \A e \in Elements(appointments) : e.duration > 0
        /\ \A i \in Indices(layouts) : layouts[i].height > 0

\* the vertical pixel intervals [top, top + height) of two records are disjoint
PixelDisjoint(a, b) == a.top + a.height <= b.top \/ b.top + b.height <= a.top

DayNumber(t) == t \div 1440

\* the subsequence of s of the events starting on the day of instant d
RECURSIVE OnDayInOrder(_, _)
OnDayInOrder(s, d) ==
    IF s = <<>> THEN <<>>
    ELSE IF DayNumber(Head(s).startTime) = DayNumber(d)
         THEN <<Head(s)>> \o OnDayInOrder(Tail(s), d)
         ELSE OnDayInOrder(Tail(s), d)

\* C14 - filterAppointmentsByDay returns, in input order, exactly the events
\* starting on the calendar day of date, whatever their time of day.
DayFilterKeepsSameDay ==
    phase \in {"dayFiltered", "hoursFiltered", "rendered"} =>
        dayAppointments = OnDayInOrder(appointments, date)

\* an event at 23:59 of the shown day is kept and one on the same day of
\* the month two months later is dropped
DayFilterKeepsSameDayWitness ==
    /\ phase = "dayFiltered"
    /\ Len(appointments) = 2
    /\ getDate(appointments[1].startTime) = getDate(date)
    /\ getMonth(appointments[1].startTime) # getMonth(date)
    /\ HourOf(appointments[2].startTime) = 23
    /\ HourOf(date) = 14
    /\ dayAppointments = <<appointments[2]>>

\* C16 - invalid configuration is rejected: filtering with endHour <=
\* startHour does not return a result.
InvalidConfigurationRejected ==
    Filtered => startHour < endHour

\* C17 - theme detection precedence: in a browser getCurrentTheme returns
\* the stored value when it is light or dark, otherwise dark if the system
\* prefers a dark colour scheme, otherwise light.
ThemePrecedence ==
    (isBrowser /\ themeCall = "getCurrentTheme") =>
        /\ storedTheme \in {"light", "dark"} => themeResult = storedTheme
        /\ (storedTheme \notin {"light", "dark"} /\ matchMedia = "dark")
              => themeResult = "dark"
        /\ (storedTheme \notin {"light", "dark"} /\ matchMedia # "dark")
              => themeResult = "light"

\* an invalid stored value is passed over for the dark system preference
ThemePrecedenceWitness ==
    /\ isBrowser
    /\ themeCall = "getCurrentTheme"
    /\ storedTheme = "auto"
    /\ matchMedia = "dark"
    /\ themeResult = "dark"

\* C18 - persistence round trip: in a browser every getCurrentTheme() after
\* a setTheme(t) returns t whatever the system prefers, and the second of
\* two consecutive toggleTheme() calls restores the theme the first found.
ThemePersists ==
    [][/\ (isBrowser' /\ themeCall' = "getCurrentTheme" /\ dataTheme' # "none")
            => themeResult' = dataTheme'
       /\ (isBrowser /\ themeCall = "toggleTheme" /\ themeCall' = "toggleTheme")
            => getCurrentTheme(isBrowser', storedTheme', matchMedia') = toggleCurrent]_vars

\* the light theme is set and still reported after the system turned dark
ThemePersistsWitness ==
    /\ isBrowser
    /\ themeCall = "getCurrentTheme"
    /\ dataTheme = "light"
    /\ matchMedia = "dark"
    /\ themeResult = "light"

\* C19 - server side: outside a browser getCurrentTheme returns light, and
\* setTheme and initializeTheme return without changing any state.
ServerSideSafe ==
    [][~isBrowser =>
        /\ themeCall' = "getCurrentTheme" => themeResult' = "light"
        /\ themeCall' \in {"setTheme", "initializeTheme"} =>
              /\ themeResult' = "none"
              /\ UNCHANGED <<storedTheme, dataTheme, matchMedia, isBrowser>>]_vars

\* initializeTheme has been called on a server
ServerSideSafeWitness ==
    /\ ~isBrowser
    /\ themeCall = "initializeTheme"
    /\ dataTheme = "none"
    /\ storedTheme = "none"

\* position k of group g is processed before position m: earlier start, or
\* the same start and longer, or the same start and duration and earlier in g
ProcessedBefore(g, k, m) ==
    \/ g[k].startTime < g[m].startTime
    \/ g[k].startTime = g[m].startTime /\ g[k].duration > g[m].duration
    \/ g[k].startTime = g[m].startTime /\ g[k].duration = g[m].duration /\ k < m

LaneOf(e) == RecordOf(layouts, e.id).lane

\* the positions of g processed before m that were put in lane l
EarlierInLane(g, m, l) ==
    {k \in Indices(g) : ProcessedBefore(g, k, m) /\ LaneOf(g[k]) = l}

\* the end of the last event put in lane l before position m is processed
LaneEndBefore(g, m, l) ==
    LET last == CHOOSE k \in EarlierInLane(g, m, l) :
                    \A j \in EarlierInLane(g, m, l) : j = k \/ ProcessedBefore(g, j, k)
    IN  EndOf(g[last])

\* lane l exists and is free when position m of g is processed
FreeAt(g, m, l) ==
    /\ EarlierInLane(g, m, l) # {}
    /\ LaneEndBefore(g, m, l) <= g[m].startTime

\* the number of lanes that exist when position m of g is processed
LanesBefore(g, m) ==
    Cardinality({LaneOf(g[k]) : k \in {j \in Indices(g) : ProcessedBefore(g, j, m)}})

\* C20 - first fit: in the order start ascending, duration descending, each
\* event of a group gets the lowest lane whose last event ends at or before
\* the event's start, and a new lane (the next index) only when no existing
\* lane is free then.
FirstFit ==
    LaidOut =>
        \A gi \in Indices(groups) : \A m \in Indices(groups[gi]) :
            LET g == groups[gi]
                lane == LaneOf(g[m])
                free == {l \in 0..(LanesBefore(g, m) - 1) : FreeAt(g, m, l)}
            IN  IF free # {}
                THEN lane \in free /\ \A l \in free : lane <= l
                ELSE lane = LanesBefore(g, m)

\* 9:00-9:45 takes lane 0, two events 9:00-9:15 need the new lanes 1 and 2,
\* and 9:15-9:30 finds both free (they ended at 9:15 exactly) and takes 1
FirstFitWitness ==
    /\ LaidOut
    /\ \E a, b, c, d \in Elements(appointments) :
        /\ a.startTime = 540 /\ a.duration = 45 /\ LaneOf(a) = 0
        /\ b.startTime = 540 /\ b.duration = 15 /\ LaneOf(b) = 1
        /\ c.startTime = 540 /\ c.duration = 15 /\ LaneOf(c) = 2
        /\ d.startTime = 555 /\ d.duration = 15 /\ LaneOf(d) = 1

\* the lanes of the records of group gi
LanesOfGroup(gi) == {LaneOf(e) : e \in Elements(groups[gi])}

\* C21 - within every group the lanes used are exactly 0..totalLanes-1:
\* every record has 0 <= lane < totalLanes, no index is left out, and all
\* records of the group carry the same totalLanes.
LanesAreGapless ==
    LaidOut =>
        \A gi \in Indices(groups) : \A e \in Elements(groups[gi]) :
            LET r == RecordOf(layouts, e.id)
            IN  /\ 0 <= r.lane /\ r.lane < r.totalLanes
                /\ LanesOfGroup(gi) = 0..(r.totalLanes - 1)
                /\ Cardinality(LanesOfGroup(gi)) = r.totalLanes

\* a group of three events on two lanes, one lane used twice
LanesAreGaplessWitness ==
    /\ LaidOut
    /\ \E gi \in Indices(groups) :
        /\ Len(groups[gi]) = 3
        /\ LanesOfGroup(gi) = {0, 1}
        /\ \A e \in Elements(groups[gi]) : RecordOf(layouts, e.id).totalLanes = 2

\* handleDragEnd has called onReschedule
Rescheduled == rescheduled.called

\* the bounds that applied to the last drop
BoundsOfDrop ==
    DragBounds(dragAppointment, dragEvent.over, businessHours, <<startHour, endHour>>)

\* the day whose hours applied to the last drop
DayOfDrop ==
    IF dragEvent.over # NoTarget THEN DayNumber(dragEvent.over)
    ELSE DayNumber(dragAppointment.startTime)

\* C22 - drag and drop stays inside working hours: a rescheduled
\* appointment starts at or after boundsStart:00 and ends at or before
\* boundsEnd:00 of the day the bounds are taken from.
DropInsideWorkingHours ==
    Rescheduled =>
        LET t == rescheduled.newStartTime.at
            dayStart == DayOfDrop * 1440
        IN  /\ t >= dayStart + BoundsOfDrop[1] * 60
            /\ t + dragAppointment.duration <= dayStart + BoundsOfDrop[2] * 60

\* C23 - every start passed to onReschedule lies on a 30-minute slot
\* boundary: minutes 0 or 30, seconds and milliseconds 0.
DropOnSlotBoundary ==
    Rescheduled =>
        /\ MinuteOf(rescheduled.newStartTime.at) \in {0, 30}
        /\ rescheduled.newStartTime.seconds = 0

\* 9:10 and 20 seconds dragged down by 30 px without a target: 9:40:20
\* becomes 9:30:00
DropOnSlotBoundaryWitness ==
    /\ Rescheduled
    /\ dragAppointment.startTime = 6310
    /\ dragAppointment.startSeconds = 20
    /\ dragEvent.over = NoTarget
    /\ dragEvent.deltaY = 30
    /\ rescheduled.newStartTime = [at |-> 6330, seconds |-> 0]

\* C24 - a drag that does not move the appointment does not reschedule it:
\* no call when the movement rounds to zero slots and the target is absent
\* or the appointment's own day.
NoMoveNoReschedule ==
    (/\ phase = "dropped"
     /\ MinutesChange(dragEvent.deltaY) = 0
     /\ \/ dragEvent.over = NoTarget
        \/ DayNumber(dragEvent.over) = DayNumber(dragAppointment.startTime))
        => ~Rescheduled

\* C26 - an accepted drag keeps the appointment on the grid: the appointment
\* with the new start is kept by filterByWorkingHours under the bounds of
\* the drop.
DropStaysDisplayed ==
    Rescheduled =>
        LET moved == [id |-> rescheduled.id,
                      startTime |-> rescheduled.newStartTime.at,
                      duration |-> dragAppointment.duration]
        IN  filterByWorkingHours(<<moved>>, BoundsOfDrop[1], BoundsOfDrop[2]) = <<moved>>

\* C25 - detail state: isDetailOpen is true exactly when an appointment is
\* selected, closeDetail leaves the detail closed, and the view and date
\* operations leave selectedAppointment as it was.
DetailFollowsSelection ==
    [][/\ isDetailOpen' = (selectedAppointment' # 0)
       /\ hookCall' = "closeDetail" => (selectedAppointment' = 0 /\ ~isDetailOpen')
       /\ hookCall' \in {"setView", "setSelectedDate", "goToPrevious", "goToNext",
                         "goToToday"}
            => selectedAppointment' = selectedAppointment]_vars

\* an appointment stays selected, with the detail open, across a step to
\* the next week
DetailFollowsSelectionWitness ==
    /\ hookCall = "goToNext"
    /\ selectedAppointment = 2
    /\ isDetailOpen

\* the number of days one navigation step moves
StepDays == IF view = "day" THEN 1 ELSE 7

\* C29 - navigation: goToNext moves selectedDate forward and goToPrevious
\* backward by exactly 1 calendar day in day view and 7 in week view, and
\* one of them called right after the other restores the calendar day.
NavigationRoundTrip ==
    [][/\ hookCall' = "goToNext"
            => DayNumber(selectedDate') = DayNumber(selectedDate) + StepDays
       /\ hookCall' = "goToPrevious"
            => DayNumber(selectedDate') = DayNumber(selectedDate) - StepDays
       /\ (\/ hookCall = "goToNext" /\ hookCall' = "goToPrevious"
           \/ hookCall = "goToPrevious" /\ hookCall' = "goToNext")
            => DayNumber(selectedDate') = DayNumber(navCurrent)]_vars

\* back on 31 December 1970 after a week forward into 1971 and a week back
NavigationRoundTripWitness ==
    /\ hookCall = "goToPrevious"
    /\ view = "week"
    /\ selectedDate = 524160
    /\ navCurrent = 524160 + 7 * 1440
    /\ getFullYear(navCurrent) = 1971

\* C30 - in a browser and on a server alike, the theme toggleTheme returns
\* is the theme getCurrentTheme reports right after the call.
ToggleResultIsCurrent ==
    themeCall = "toggleTheme" =>
        themeResult = getCurrentTheme(isBrowser, storedTheme, matchMedia)

\* the rendered blocks of two records do not overlap vertically
RenderedDisjoint(a, b) ==
    \/ a.top + RenderedHeight(a.height) <= b.top
    \/ b.top + RenderedHeight(b.height) <= a.top

\* C28 - the rendered blocks (top, max(height - 2, 30)) of two distinct
\* events do not overlap vertically unless the events share a group and
\* have different lanes.
NoRenderedCollision ==
    LaidOut =>
        \A i, j \in Indices(layouts) :
            i # j =>
                \/ /\ SameGroup(layouts[i].appointment, layouts[j].appointment)
                   /\ layouts[i].lane # layouts[j].lane
                \/ RenderedDisjoint(layouts[i], layouts[j])

\* C27 - in the day view and in the week view every laid-out event has
\* 0 <= top < (gridEndHour - gridStartHour) * 2 * SLOT_HEIGHT, the grid of
\* the week view spanning the least opening to the largest closing hour.
TopInsideGrid ==
    phase = "rendered" =>
        \A c \in Indices(columns) : \A k \in Indices(columns[c]) :
            /\ 0 <= columns[c][k].top
            /\ columns[c][k].top < (gridHours[2] - gridHours[1]) * 2 * SLOT_HEIGHT

\* week view with Monday 7-12 and Tuesday 10-18: the grid spans 7 to 21,
\* Monday's 7:00 event lies at the top and Thursday's 20:30 event in the
\* last slot
TopInsideGridWitness ==
    /\ phase = "rendered"
    /\ view = "week"
    /\ gridHours = <<7, 21>>
    /\ \E k \in Indices(columns[2]) : columns[2][k].top = 0
    /\ \E k \in Indices(columns[5]) : columns[5][k].top = 13 * 2 * SLOT_HEIGHT + SLOT_HEIGHT

====
